---- MODULE Spec2Model ----
(***************************************************************************)
(* Model of etl.py: a batch job that reads song catalog records and user   *)
(* activity records, derives the songs, artists, users, time and songplays *)
(* tables and writes them one after the other.                             *)
(*                                                                         *)
(* A dataframe is a bag (multiset) of rows: row order is not part of the   *)
(* engine's contract.  A row is a record.  A table written with            *)
(* partitionBy is a function from the partition key (the directory) to     *)
(* the bag of rows of that directory, stored without the partition columns.*)
(***************************************************************************)
EXTENDS Integers, Sequences, FiniteSets, Bags, TLC

\* ------------------------------------------------------------------ bounds
MaxSongRecords == 2
MaxLogRecords == 2

\* ------------------------------------------------------------ data values
\* A JSON null / an absent field.
NULL == "<null>"

\* ts is a 64-bit count of milliseconds; it is held as two limbs,
\* ts = hi * 10^6 + lo, so that every intermediate value fits 32 bits.
Limb == 1000 * 1000
MsPerSecond == 1000
SecondsPerDay == 24 * 3600

Ts(hi, lo) == [hi |-> hi, lo |-> lo]

\* Candidate catalog records (song_data/*/*/*/*.json).
SongRec(sid, title, aid, yr, dur, aname, aloc) ==
    [song_id |-> sid, title |-> title, artist_id |-> aid, year |-> yr,
     duration |-> dur, artist_name |-> aname, artist_location |-> aloc,
     artist_latitude |-> NULL, artist_longitude |-> NULL]

SongCandidates ==
    { SongRec("S1", "T1", "A1", 2000, "123.4", "Dr. Dre", "LA"),
      \* the same song columns as S1, another artist_location
      SongRec("S1", "T1", "A1", 2000, "123.4", "Dr. Dre", "Compton"),
      \* a second song of the same artist and year
      SongRec("S2", "T2", "A1", 2000, "200.0", "Dr. Dre", "LA"),
      \* the year of S1, another artist
      SongRec("S3", "T3", "A2", 2000, "99.9", "Adele", NULL) }

\* Candidate activity records (log_data/*/*/*.json).
LogRec(uid, fn, ln, g, lvl, page, ts, artist, sess) ==
    [userId |-> uid, firstName |-> fn, lastName |-> ln, gender |-> g,
     level |-> lvl, page |-> page, ts |-> ts, artist |-> artist,
     sessionId |-> sess, location |-> "LA", userAgent |-> "x"]

LogCandidates ==
    { \* 2018-11-05 17:59:56.796 UTC
      LogRec("U1", "Ann", "Lee", "F", "free", "NextSong", Ts(1541440, 796796), "Dr. Dre", 1),
      \* the same user and second as the first, another level and millisecond
      LogRec("U1", "Ann", "Lee", "F", "paid", "NextSong", Ts(1541440, 796999), "Dr. Dre", 2),
      \* the same ts as the first, another user and artist
      LogRec("U2", "Bob", "Ray", "M", "free", "NextSong", Ts(1541440, 796796), "Adele", 3),
      \* artist differs from the catalog's only in letter case;
      \* 2018-11-01 00:00:05 UTC, which is October 31 west of Greenwich
      LogRec("U2", "Bob", "Ray", "M", "free", "NextSong", Ts(1541030, 405000), "dr. dre", 3),
      \* not song plays
      LogRec("", NULL, NULL, NULL, "free", "Home", Ts(1541440, 800000), NULL, 4),
      LogRec("U3", "Cy", "Oz", "M", "paid", "Settings", Ts(1541440, 900000), "Dr. Dre", 5) }

\* The offset of the environment's local time zone from UTC, in seconds.
TimeZones == { 0, -8 * 3600 }

\* ------------------------------------------------------------------- bags
RECURSIVE SumOver(_, _)
SumOver(f, S) ==
    IF S = {} THEN 0
    ELSE LET x == CHOOSE y \in S : TRUE IN f[x] + SumOver(f, S \ {x})

\* The bag with the positive entries of f.
Positive(f) == [x \in {y \in DOMAIN f : f[y] > 0} |-> f[x]]

\* Every bag of at most n elements of S.
BagsUpTo(S, n) ==
    { Positive(f) : f \in {g \in [S -> 0..n] : SumOver(g, S) <= n} }

Size(B) == SumOver(B, DOMAIN B)

Count(B, x) == IF x \in DOMAIN B THEN B[x] ELSE 0

\* The bag of f[r] for the rows r of B (a projection, a derived row); f is
\* a function on the rows of B.
MapBag(f, B) ==
    [y \in {f[r] : r \in DOMAIN B} |->
        SumOver(B, {r \in DOMAIN B : f[r] = y})]

\* The rows of B that are in the set S.
FilterBag(S, B) == [r \in {x \in DOMAIN B : x \in S} |-> B[r]]

\* ------------------------------------------------------- calendar fields
\* Variant: the timestamp cut to the whole second (an integer division).
get_timestamp_whole_seconds(ts) ==
    [sec |-> ts.hi * (Limb \div MsPerSecond) + ts.lo \div MsPerSecond,
     us  |-> 0]

\* get_timestamp: ts / 1000.0 seconds since the epoch as a datetime, which
\* TimestampType stores in microseconds.  The quotient is a float and keeps
\* the fraction: sec is the whole second, us the microsecond within it.
get_timestamp(ts) ==
    [sec |-> ts.hi * (Limb \div MsPerSecond) + ts.lo \div MsPerSecond,
     us  |-> (ts.lo % MsPerSecond) * 1000]

\* Seconds and days of the local wall clock.
LocalSeconds(st, zone) == st.sec + zone
LocalDays(st, zone) == LocalSeconds(st, zone) \div SecondsPerDay

\* The civil date of a day number (days since 1970-01-01), proleptic
\* Gregorian calendar.
CivilFromDays(days) ==
    LET z   == days + 719468
        era == z \div 146097
        doe == z - era * 146097
        yoe == (doe - doe \div 1460 + doe \div 36524 - doe \div 146096) \div 365
        doy == doe - (365 * yoe + yoe \div 4 - yoe \div 100)
        mp  == (5 * doy + 2) \div 153
        d   == doy - (153 * mp + 2) \div 5 + 1
        m   == IF mp < 10 THEN mp + 3 ELSE mp - 9
        y   == yoe + era * 400 + (IF m <= 2 THEN 1 ELSE 0)
    IN  [year |-> y, month |-> m, day |-> d]

DaysFromCivil(y, m, d) ==
    LET yy  == IF m <= 2 THEN y - 1 ELSE y
        era == yy \div 400
        yoe == yy - era * 400
        mp  == IF m > 2 THEN m - 3 ELSE m + 9
        doy == (153 * mp + 2) \div 5 + d - 1
        doe == yoe * 365 + yoe \div 4 - yoe \div 100 + doy
    IN  era * 146097 + doe - 719468

year(st, zone) == CivilFromDays(LocalDays(st, zone)).year
month(st, zone) == CivilFromDays(LocalDays(st, zone)).month
dayofmonth(st, zone) == CivilFromDays(LocalDays(st, zone)).day
hour(st, zone) == (LocalSeconds(st, zone) % SecondsPerDay) \div 3600

\* dayofweek: 1 = Sunday ... 7 = Saturday (1970-01-01 was a Thursday).
dayofweek(st, zone) == ((LocalDays(st, zone) + 4) % 7) + 1

\* weekofyear: the ISO 8601 week number (weeks start on Monday, week 1
\* holds the year's first Thursday).
IsoWeekday(days) == ((days + 3) % 7) + 1
WeeksInYear(y) ==
    LET p(n) == (n + n \div 4 - n \div 100 + n \div 400) % 7
    IN  IF p(y) = 4 \/ p(y - 1) = 3 THEN 53 ELSE 52
weekofyear(st, zone) ==
    LET days == LocalDays(st, zone)
        y    == CivilFromDays(days).year
        doy  == days - DaysFromCivil(y, 1, 1) + 1
        w    == (doy - IsoWeekday(days) + 10) \div 7
    IN  IF w < 1 THEN WeeksInYear(y - 1)
        ELSE IF w > WeeksInYear(y) THEN 1
        ELSE w

\* ------------------------------------------------------------ dataframes
\* Column equality as the engine evaluates it: a comparison with a null is
\* not true; two strings are equal when they are the same string.
SqlEq(a, b) == a # NULL /\ b # NULL /\ a = b

dropDuplicates(B) == [r \in DOMAIN B |-> 1]

\* A partitioned write: one group of rows per value of Key, each row
\* stored as rest (the row without the partition columns); key and rest
\* are functions on the rows of B.
partitionBy(B, key, rest) ==
    [k \in {key[r] : r \in DOMAIN B} |->
        MapBag(rest, FilterBag({r \in DOMAIN B : key[r] = k}, B))]

\* Reading a partitioned table back: every stored row with the columns of
\* its directory.
ReadPartitioned(T) ==
    LET rows == UNION { {g @@ k : g \in DOMAIN T[k]} : k \in DOMAIN T }
    IN  [r \in rows |->
            SumOver([k \in DOMAIN T |->
                        SumOver(T[k], {g \in DOMAIN T[k] : g @@ k = r})],
                    DOMAIN T)]

\* --- process_song_data
SongsColumns(r) ==
    [song_id |-> r.song_id, title |-> r.title, artist_id |-> r.artist_id,
     year |-> r.year, duration |-> r.duration]

\* Variant: the projection without dropDuplicates.
songs_table_with_duplicates(df) ==
    MapBag([r \in DOMAIN df |-> SongsColumns(r)], df)

songs_table(df) ==
    dropDuplicates(MapBag([r \in DOMAIN df |-> SongsColumns(r)], df))

\* Variant: partitionBy('year').
SongsPartitionKeyYearOnly(r) == [year |-> r.year]

SongsPartitionKey(r) == [year |-> r.year, artist_id |-> r.artist_id]
SongsPartitionRest(r) ==
    [song_id |-> r.song_id, title |-> r.title, duration |-> r.duration]

ArtistsColumns(r) ==
    [artist_id |-> r.artist_id, name |-> r.artist_name,
     location |-> r.artist_location, latitude |-> r.artist_latitude,
     longitude |-> r.artist_longitude]

artists_table(df) ==
    dropDuplicates(MapBag([r \in DOMAIN df |-> ArtistsColumns(r)], df))

\* --- process_log_data
IsSongPlay(r) == SqlEq(r.page, "NextSong")

\* Variant: no filter on page.
KeepAllPages(df) == df

NextSongFilter(df) == FilterBag({r \in DOMAIN df : IsSongPlay(r)}, df)

UsersColumns(r) ==
    [user_id |-> r.userId, first_name |-> r.firstName,
     last_name |-> r.lastName, gender |-> r.gender, level |-> r.level]

users_table(df) ==
    dropDuplicates(MapBag([r \in DOMAIN df |-> UsersColumns(r)], df))

\* withColumn start_time, hour, day, week, month, year, weekday.
TimeColumns(ts, zone) ==
    LET st == get_timestamp(ts)
    IN  [start_time |-> st, hour |-> hour(st, zone),
         day |-> dayofmonth(st, zone), week |-> weekofyear(st, zone),
         month |-> month(st, zone), year |-> year(st, zone),
         weekday |-> dayofweek(st, zone)]

WithTimeColumns(df, zone) ==
    MapBag([r \in DOMAIN df |-> r @@ TimeColumns(r.ts, zone)], df)

TimeTableColumns(r) ==
    [start_time |-> r.start_time, hour |-> r.hour, day |-> r.day,
     week |-> r.week, month |-> r.month, year |-> r.year,
     weekday |-> r.weekday]

time_table(df) ==
    dropDuplicates(MapBag([r \in DOMAIN df |-> TimeTableColumns(r)], df))

YearMonthKey(r) == [year |-> r.year, month |-> r.month]
TimePartitionRest(r) ==
    [start_time |-> r.start_time, hour |-> r.hour, day |-> r.day,
     week |-> r.week, weekday |-> r.weekday]

\* withColumnRenamed('year', 'song_year') on the reloaded catalog.
RenameYear(s) ==
    [c \in (DOMAIN s \ {"year"}) \cup {"song_year"} |->
        IF c = "song_year" THEN s.year ELSE s[c]]

song_df_for_join(data) == MapBag([s \in DOMAIN data |-> RenameYear(s)], data)

\* Variant: a join that ignores letter case.
Lower(a) ==
    CASE a = "Dr. Dre" -> "dr. dre"
      [] a = "Adele" -> "adele"
      [] OTHER -> a
JoinConditionIgnoringCase(l, s) == SqlEq(Lower(s.artist_name), Lower(l.artist))

JoinCondition(l, s) == SqlEq(s.artist_name, l.artist)

\* df.join(song_df, song_df.artist_name == df.artist, 'inner'): one row
\* for every pair of rows that satisfies the condition.
InnerJoin(df, sdf) ==
    LET pairs == {p \in (DOMAIN df) \X (DOMAIN sdf) : JoinCondition(p[1], p[2])}
        Row(p) == p[1] @@ p[2]
        mult   == [p \in pairs |-> df[p[1]] * sdf[p[2]]]
    IN  [j \in {Row(p) : p \in pairs} |->
            SumOver(mult, {p \in pairs : Row(p) = j})]

\* The rows of a bag one by one, equal rows as often as they occur, in the
\* order the engine's iterators happen to yield them.
RECURSIVE RowsInOrder(_)
RowsInOrder(B) ==
    IF DOMAIN B = {} THEN <<>>
    ELSE LET r == CHOOSE x \in DOMAIN B : TRUE
             rest == [x \in DOMAIN B \ {r} |-> B[x]]
         IN  [i \in 1..B[r] |-> r] \o RowsInOrder(rest)

\* Variant: the number of the row within its partition alone.
RecordNumberOnly(partition, record) == [partition |-> 0, record |-> record]

\* monotonically_increasing_id: the partition number in the upper 31 bits,
\* the number of the row within its partition in the lower 33 bits.  The
\* 64-bit value partition * 2^33 + record is held as the pair of its parts.
monotonically_increasing_id(partition, record) ==
    [partition |-> partition, record |-> record]

\* The id of row i of rows, when split[i] is the partition row i falls in.
IdOfRow(rows, split, i) ==
    monotonically_increasing_id(
        split[i], Cardinality({j \in 1..(i - 1) : split[j] = split[i]}))

\* Variant: the catalog record's year selected as year.
SongplaysColumnsSongYear(j, id) ==
    [songplay_id |-> id, start_time |-> j.start_time, user_id |-> j.userId,
     level |-> j.level, song_id |-> j.song_id, artist_id |-> j.artist_id,
     session_id |-> j.sessionId, location |-> j.location,
     user_agent |-> j.userAgent, month |-> j.month, year |-> j.song_year]

SongplaysColumns(j, id) ==
    [songplay_id |-> id, start_time |-> j.start_time, user_id |-> j.userId,
     level |-> j.level, song_id |-> j.song_id, artist_id |-> j.artist_id,
     session_id |-> j.sessionId, location |-> j.location,
     user_agent |-> j.userAgent, month |-> j.month, year |-> j.year]

SongplaysPartitionRest(r) ==
    [songplay_id |-> r.songplay_id, start_time |-> r.start_time,
     user_id |-> r.user_id, level |-> r.level, song_id |-> r.song_id,
     artist_id |-> r.artist_id, session_id |-> r.session_id,
     location |-> r.location, user_agent |-> r.user_agent]

\* The partitions of the joined dataframe (one per parallel task), and the
\* splits of n rows over them; a partition may stay empty.
PartitionIds == {0, 1}
Splits(n) == [1..n -> PartitionIds]

songplays_table(joined, split) ==
    LET rows == [i \in 1..Len(joined) |->
                    SongplaysColumns(joined[i], IdOfRow(joined, split, i))]
    IN  [r \in {rows[i] : i \in 1..Len(rows)} |->
            Cardinality({i \in 1..Len(rows) : rows[i] = r})]

\* ---------------------------------------------------------------- state
VARIABLES
    songData,   \* the catalog records under input_data (a bag)
    logData,    \* the activity records under input_data (a bag)
    zone,       \* the environment's local time zone
    pc,         \* the statement main is at
    df,         \* process_song_data's df
    log_df,     \* process_log_data's df
    disk,       \* output path -> the table written there
    logger,     \* the messages logged so far
    exc         \* the I/O step whose exception ended the process, or NONE

vars == <<songData, logData, zone, pc, df, log_df, disk, logger, exc>>

NONE == "none"

\* Variant: the time table written before the users table.
StepsTimeBeforeUsers ==
    << "create_spark_session",
       "read_song_data", "write_songs", "write_artists",
       "read_log_data", "write_time", "write_users",
       "read_song_data_for_join_and_write_songplays",
       "log_completed" >>

\* The I/O steps of main, in program order, then the completion message.
Steps ==
    << "create_spark_session",
       "read_song_data", "write_songs", "write_artists",
       "read_log_data", "write_users", "write_time",
       "read_song_data_for_join_and_write_songplays",
       "log_completed" >>

StepAfter(step) ==
    LET i == CHOOSE k \in 1..Len(Steps) : Steps[k] = step
    IN  IF i = Len(Steps) THEN "done" ELSE Steps[i + 1]

\* The messages logged between the previous I/O call and this one.
Messages(step) ==
    CASE step = "read_song_data" -> <<"Reading song data json files">>
      [] step = "write_songs" ->
            <<"Writing song table partitioned by year and artist_id in parquet format">>
      [] step = "write_artists" -> <<"Writing artists table in parquet format">>
      [] step = "read_log_data" -> <<"Reading log data json files">>
      [] step = "write_users" -> <<"Writing users table in parquet format">>
      [] step = "write_time" ->
            <<"Writing time table partitioned by year and month in parquet format">>
      [] step = "read_song_data_for_join_and_write_songplays" ->
            <<"Reading song data for join">>
      [] step = "log_completed" -> <<"Job completed!">>
      [] OTHER -> <<>>

SongplaysMessage ==
    "Writing songplays table partitioned by year and month in parquet format"

\* Variant: the exception caught and the run continued.
ContinueAfterFailure(step) == StepAfter(step)

\* No try/except anywhere: an exception of a read or a write leaves main.
OnFailure(step) == "failed"

\* The output locations under output_data.
SongsPath == "tbl_songs.parquet"
ArtistsPath == "tbl_artists.parquet"
UsersPath == "tbl_users.parquet"
TimePath == "tbl_time.parquet"
SongplaysPath == "tbl_songplays.parquet"

\* DataFrameWriter.parquet in its default mode: the path must not exist.
CanWrite(path) == path \notin DOMAIN disk
Written(path, table) == disk @@ (path :> table)

\* spark.read.json infers the columns from the records it finds; with no
\* record the columns the code selects next do not exist.
CanRead(data) == data # EmptyBag

Init ==
    /\ songData \in BagsUpTo(SongCandidates, MaxSongRecords)
    /\ logData \in BagsUpTo(LogCandidates, MaxLogRecords)
    /\ zone \in TimeZones
    /\ pc = "create_spark_session"
    /\ df = EmptyBag
    /\ log_df = EmptyBag
    /\ disk = <<>>
    /\ logger = <<>>
    /\ exc = NONE

\* --- main
CreateSparkSession ==
    /\ pc = "create_spark_session"
    /\ pc' = StepAfter(pc)
    /\ UNCHANGED <<songData, logData, zone, df, log_df, disk, logger, exc>>

\* --- process_song_data
ReadSongData ==
    /\ pc = "read_song_data"
    /\ CanRead(songData)
    /\ df' = songData
    /\ logger' = logger \o Messages(pc)
    /\ pc' = StepAfter(pc)
    /\ UNCHANGED <<songData, logData, zone, log_df, disk, exc>>

WriteSongs ==
    /\ pc = "write_songs"
    /\ CanWrite(SongsPath)
    /\ disk' = Written(SongsPath,
                       LET t == songs_table(df)
                       IN  partitionBy(t,
                               [r \in DOMAIN t |-> SongsPartitionKey(r)],
                               [r \in DOMAIN t |-> SongsPartitionRest(r)]))
    /\ logger' = logger \o Messages(pc)
    /\ pc' = StepAfter(pc)
    /\ UNCHANGED <<songData, logData, zone, df, log_df, exc>>

WriteArtists ==
    /\ pc = "write_artists"
    /\ CanWrite(ArtistsPath)
    /\ disk' = Written(ArtistsPath, artists_table(df))
    /\ logger' = logger \o Messages(pc)
    /\ pc' = StepAfter(pc)
    /\ df' = EmptyBag
    /\ UNCHANGED <<songData, logData, zone, log_df, exc>>

\* --- process_log_data
ReadLogData ==
    /\ pc = "read_log_data"
    /\ CanRead(logData)
    /\ log_df' = NextSongFilter(logData)
    /\ logger' = logger \o Messages(pc)
    /\ pc' = StepAfter(pc)
    /\ UNCHANGED <<songData, logData, zone, df, disk, exc>>

WriteUsers ==
    /\ pc = "write_users"
    /\ CanWrite(UsersPath)
    /\ disk' = Written(UsersPath, users_table(log_df))
    /\ logger' = logger \o Messages(pc)
    /\ pc' = StepAfter(pc)
    /\ UNCHANGED <<songData, logData, zone, df, log_df, exc>>

WriteTime ==
    /\ pc = "write_time"
    /\ CanWrite(TimePath)
    /\ log_df' = WithTimeColumns(log_df, zone)
    /\ disk' = Written(TimePath,
                       LET t == time_table(log_df')
                       IN  partitionBy(t,
                               [r \in DOMAIN t |-> YearMonthKey(r)],
                               [r \in DOMAIN t |-> TimePartitionRest(r)]))
    /\ logger' = logger \o Messages(pc)
    /\ pc' = StepAfter(pc)
    /\ UNCHANGED <<songData, logData, zone, df, exc>>

\* The reload of the catalog is lazy apart from its schema inference; the
\* join, the ids and the projection are evaluated by the write.
WriteSongplays ==
    /\ pc = "read_song_data_for_join_and_write_songplays"
    /\ CanRead(songData)
    /\ CanWrite(SongplaysPath)
    /\ LET joined == RowsInOrder(InnerJoin(log_df, song_df_for_join(songData)))
       IN  \E split \in Splits(Len(joined)) :
              LET t == songplays_table(joined, split)
              IN  disk' = Written(SongplaysPath,
                      partitionBy(t,
                          [r \in DOMAIN t |-> YearMonthKey(r)],
                          [r \in DOMAIN t |-> SongplaysPartitionRest(r)]))
    /\ logger' = logger \o Messages(pc) \o <<SongplaysMessage>>
    /\ pc' = StepAfter(pc)
    /\ log_df' = EmptyBag
    /\ UNCHANGED <<songData, logData, zone, df, exc>>

LogCompleted ==
    /\ pc = "log_completed"
    /\ logger' = logger \o Messages(pc)
    /\ pc' = StepAfter(pc)
    /\ UNCHANGED <<songData, logData, zone, df, log_df, disk, exc>>

\* A read or a write raises: the messages logged before the call stay
\* logged, nothing is written, and the exception is not caught.
Fail ==
    /\ pc \in {Steps[i] : i \in 1..(Len(Steps) - 1)}
    /\ exc' = pc
    /\ logger' = logger \o Messages(pc)
    /\ pc' = OnFailure(pc)
    /\ UNCHANGED <<songData, logData, zone, df, log_df, disk>>

Next ==
    \/ CreateSparkSession
    \/ ReadSongData
    \/ WriteSongs
    \/ WriteArtists
    \/ ReadLogData
    \/ WriteUsers
    \/ WriteTime
    \/ WriteSongplays
    \/ LogCompleted
    \/ Fail

Spec == Init /\ [][Next]_vars

\* ------------------------------------------------------------ properties
OnDisk(path) == path \in DOMAIN disk

\* The activity records that are song plays, and the rows of the tables on
\* disk.
NextSongRecords == {l \in DOMAIN logData : l.page = "NextSong"}
UsersRows == disk[UsersPath]
TimeRows == ReadPartitioned(disk[TimePath])
SongplaysRows == ReadPartitioned(disk[SongplaysPath])
SongsRows == ReadPartitioned(disk[SongsPath])

\* The timestamp of a count of milliseconds: whole seconds and the
\* milliseconds within the second.
WholeSeconds(ts) == ts.hi * 1000 + ts.lo \div 1000
Millis(ts) == ts.lo % 1000

\* Row r of the songplays table carries the columns of activity record l
\* (two candidate activity records differ in sessionId or ts).
PlayOf(r, l) ==
    /\ r.user_id = l.userId
    /\ r.level = l.level
    /\ r.session_id = l.sessionId
    /\ r.location = l.location
    /\ r.user_agent = l.userAgent
    /\ r.start_time.sec = WholeSeconds(l.ts)
    /\ r.start_time.us = 1000 * Millis(l.ts)

\* C1: no activity record whose page is not "NextSong" contributes a row to
\* the users, time or songplays table: every row of the three tables is
\* derived from some activity record with page = "NextSong".
C1_OnlyNextSongRows ==
    /\ OnDisk(UsersPath) =>
          \A u \in DOMAIN UsersRows : \E l \in NextSongRecords :
              /\ u.user_id = l.userId
              /\ u.first_name = l.firstName
              /\ u.last_name = l.lastName
              /\ u.gender = l.gender
              /\ u.level = l.level
    /\ OnDisk(TimePath) =>
          \A t \in DOMAIN TimeRows : \E l \in NextSongRecords :
              /\ t.start_time.sec = WholeSeconds(l.ts)
              /\ t.start_time.us = 1000 * Millis(l.ts)
    /\ OnDisk(SongplaysPath) =>
          \A r \in DOMAIN SongplaysRows : \E l \in NextSongRecords : PlayOf(r, l)

\* C1's case: the three tables are written from activity records that hold
\* a song play and a record of another page whose artist is in the catalog.
C1_Witness ==
    /\ OnDisk(SongplaysPath)
    /\ DOMAIN SongplaysRows # {}
    /\ DOMAIN UsersRows # {}
    /\ \E l \in DOMAIN logData : \E s \in DOMAIN songData :
          l.page # "NextSong" /\ l.artist = s.artist_name

\* The pairs (song play, catalog record) whose artist strings are equal.
MatchingPairs ==
    {p \in NextSongRecords \X DOMAIN songData :
        p[1].artist # NULL /\ p[1].artist = p[2].artist_name}

PairColumns(p) ==
    [start_time |-> [sec |-> WholeSeconds(p[1].ts), us |-> 1000 * Millis(p[1].ts)],
     user_id |-> p[1].userId, level |-> p[1].level,
     song_id |-> p[2].song_id, artist_id |-> p[2].artist_id,
     session_id |-> p[1].sessionId, location |-> p[1].location,
     user_agent |-> p[1].userAgent]

WithoutIdAndPartition(r) ==
    [c \in DOMAIN r \ {"songplay_id", "year", "month"} |-> r[c]]

\* C2: the songplays table has exactly one row for each pair (song play,
\* catalog record) whose artist and artist_name are the same string, and no
\* other row; a song play whose artist equals no catalog artist_name
\* exactly contributes no row.
C2_ExactArtistJoin ==
    OnDisk(SongplaysPath) =>
        LET mult == [p \in MatchingPairs |-> logData[p[1]] * songData[p[2]]]
            expected ==
                [c \in {PairColumns(p) : p \in MatchingPairs} |->
                    SumOver(mult, {p \in MatchingPairs : PairColumns(p) = c})]
        IN  /\ MapBag([r \in DOMAIN SongplaysRows |-> WithoutIdAndPartition(r)],
                      SongplaysRows) = expected
            /\ \A l \in NextSongRecords :
                  (\A s \in DOMAIN songData : l.artist # s.artist_name)
                  => (\A r \in DOMAIN SongplaysRows : ~PlayOf(r, l))

\* C2's case: a song play that matches the catalog and one whose artist
\* differs from the catalog's in letter case only.
C2_Witness ==
    /\ OnDisk(SongplaysPath)
    /\ Size(SongplaysRows) = 1
    /\ \E l \in NextSongRecords : l.artist = "dr. dre"
    /\ \E s \in DOMAIN songData : s.artist_name = "Dr. Dre"

\* C3: no two rows of the songplays table share a songplay_id, whatever the
\* number of joined rows and their split over the partitions.
C3_DistinctSongplayIds ==
    OnDisk(SongplaysPath) =>
        \A r \in DOMAIN SongplaysRows :
            SumOver(SongplaysRows,
                    {q \in DOMAIN SongplaysRows : q.songplay_id = r.songplay_id}) = 1

\* C3's case: rows in both partitions, two of them in one partition.
C3_Witness ==
    /\ OnDisk(SongplaysPath)
    /\ Size(SongplaysRows) >= 3
    /\ \E q, r \in DOMAIN SongplaysRows :
          q.songplay_id.partition # r.songplay_id.partition
    /\ \E q, r \in DOMAIN SongplaysRows :
          /\ q.songplay_id.partition = r.songplay_id.partition
          /\ q.songplay_id.record # r.songplay_id.record

SongValues(s) ==
    [song_id |-> s.song_id, title |-> s.title, artist_id |-> s.artist_id,
     year |-> s.year, duration |-> s.duration]

\* C4: the songs table holds exactly one row for each distinct value of
\* (song_id, title, artist_id, year, duration) in the input, and no other.
C4_SongsDeduplicated ==
    OnDisk(SongsPath) =>
        /\ \A s \in DOMAIN songData : Count(SongsRows, SongValues(s)) = 1
        /\ \A r \in DOMAIN SongsRows : \E s \in DOMAIN songData : r = SongValues(s)

\* C4's case: two catalog records agree on the five columns.
C4_Witness ==
    /\ OnDisk(SongsPath)
    /\ Size(songData) = 2
    /\ Size(SongsRows) = 1

\* C5: no two rows of the users table share a user_id.
C5_UniqueUserId ==
    OnDisk(UsersPath) =>
        \A u \in DOMAIN UsersRows :
            SumOver(UsersRows, {v \in DOMAIN UsersRows : v.user_id = u.user_id}) = 1

\* C6 as stated: start_time has seconds resolution, so that song plays in
\* the same whole second share one row of the time table.
C6_SecondsResolution ==
    OnDisk(TimePath) =>
        \A l \in NextSongRecords :
            /\ \E t \in DOMAIN TimeRows :
                  t.start_time = [sec |-> WholeSeconds(l.ts), us |-> 0]
            /\ SumOver(TimeRows,
                       {t \in DOMAIN TimeRows :
                           t.start_time.sec = WholeSeconds(l.ts)}) = 1

\* C6, amended: start_time keeps the milliseconds of ts: the time table has
\* exactly one row for each distinct ts of a song play, its start_time the
\* whole second of ts plus the milliseconds of ts, so two song plays share
\* a row exactly when their ts are equal.
C6_MillisecondResolution ==
    OnDisk(TimePath) =>
        /\ \A l \in NextSongRecords :
              SumOver(TimeRows,
                      {t \in DOMAIN TimeRows :
                          /\ t.start_time.sec = WholeSeconds(l.ts)
                          /\ t.start_time.us = 1000 * Millis(l.ts)}) = 1
        /\ Size(TimeRows) = Cardinality({l.ts : l \in NextSongRecords})

\* C6's case: two song plays in the same whole second with different
\* milliseconds.
C6_Witness ==
    /\ OnDisk(TimePath)
    /\ Size(TimeRows) = 2
    /\ \E l, m \in NextSongRecords :
          l.ts # m.ts /\ WholeSeconds(l.ts) = WholeSeconds(m.ts)

\* C7: the partitioned songs table is lossless: the rows of all groups
\* together are the deduplicated projected rows, every row lies in exactly
\* one group, and a group is one value of (year, artist_id).
C7_PartitioningLossless ==
    OnDisk(SongsPath) =>
        LET T == disk[SongsPath]
            expected == {SongValues(s) : s \in DOMAIN songData}
        IN  /\ SongsRows = [r \in expected |-> 1]
            /\ \A k \in DOMAIN T : DOMAIN k = {"year", "artist_id"}
            /\ \A e \in expected :
                  {k \in DOMAIN T : \E g \in DOMAIN T[k] : g @@ k = e}
                     = {[year |-> e.year, artist_id |-> e.artist_id]}

\* C7's case: two songs of one year and different artists, in two groups.
C7_Witness ==
    /\ OnDisk(SongsPath)
    /\ Cardinality(DOMAIN disk[SongsPath]) = 2
    /\ \E j, k \in DOMAIN disk[SongsPath] : j # k /\ j.year = k.year

Logged(msg) == \E i \in 1..Len(logger) : logger[i] = msg

\* The tables a run has written when its step fails.
WrittenBefore(step) ==
    CASE step \in {"create_spark_session", "read_song_data", "write_songs"} -> {}
      [] step = "write_artists" -> {SongsPath}
      [] step \in {"read_log_data", "write_users"} -> {SongsPath, ArtistsPath}
      [] step = "write_time" -> {SongsPath, ArtistsPath, UsersPath}
      [] OTHER -> {SongsPath, ArtistsPath, UsersPath, TimePath}

\* C8: a failure of a read or a write is fatal: after it nothing is written,
\* retried, rolled back or logged, "Job completed!" is never logged, and
\* the tables on disk are those written before the failing step.
C8_FailureIsFatal ==
    /\ [](exc # NONE =>
            /\ pc = "failed"
            /\ ~Logged("Job completed!")
            /\ DOMAIN disk = WrittenBefore(exc))
    /\ [][exc # NONE => UNCHANGED <<pc, disk, logger, exc>>]_vars

\* C8's case: a failure inside process_log_data, with the catalog outputs
\* on disk.
C8_Witness ==
    /\ exc = "write_time"
    /\ OnDisk(SongsPath) /\ OnDisk(ArtistsPath) /\ OnDisk(UsersPath)
    /\ Size(ReadPartitioned(disk[SongsPath])) > 0

WriteOrder == <<SongsPath, ArtistsPath, UsersPath, TimePath, SongplaysPath>>

\* C9: the five tables are written in the order songs, artists, users,
\* time, songplays, one at a time, each once and never changed afterwards,
\* and "Job completed!" is logged only after all five.
C9_WriteOrder ==
    /\ [](/\ \E n \in 0..Len(WriteOrder) :
                DOMAIN disk = {WriteOrder[i] : i \in 1..n}
          /\ Logged("Job completed!") =>
                DOMAIN disk = {WriteOrder[i] : i \in 1..Len(WriteOrder)})
    /\ [][/\ \A p \in DOMAIN disk : p \in DOMAIN disk' /\ disk'[p] = disk[p]
          /\ Cardinality(DOMAIN disk') <= Cardinality(DOMAIN disk) + 1]_vars

\* C9's case: a run that completed.
C9_Witness ==
    /\ pc = "done"
    /\ Logged("Job completed!")
    /\ Cardinality(DOMAIN disk) = 5
    /\ Size(SongplaysRows) > 0

\* C10: a songplays row is written to the (year, month) partition of its
\* own start_time, not of the catalog record's year, and that is the
\* partition its start_time has in the time table.
C10_PlayYearMonth ==
    OnDisk(SongplaysPath) =>
        \A k \in DOMAIN disk[SongplaysPath] :
            \A g \in DOMAIN disk[SongplaysPath][k] :
                /\ k.year = year(g.start_time, zone)
                /\ k.month = month(g.start_time, zone)
                /\ k \in DOMAIN disk[TimePath]
                /\ \E t \in DOMAIN disk[TimePath][k] : t.start_time = g.start_time

\* C10's case: a songplays row whose catalog record has another year.
C10_Witness ==
    /\ OnDisk(SongplaysPath)
    /\ \E r \in DOMAIN SongplaysRows : \E s \in DOMAIN songData :
          s.song_id = r.song_id /\ s.year # r.year

====
